---------------------------- MODULE Spec2Model ----------------------------
(***************************************************************************)
(* State-machine model of the numeric core of the Stellarium "Ancient      *)
(* Indian Clock": the three solvers and the star table of utils/helpers.py *)
(* and the part of app.py's main() that calls them, over one script run    *)
(* and over a session of runs.                                             *)
(*                                                                         *)
(* Units.  Instants are integer minutes of UTC counted from 00:00 UTC of   *)
(* day 0.  Altitudes of the Sun are integer milli-degrees.  Sidereal time  *)
(* is in sidereal minutes (24 h = 1440).  Angles of the alt/az solver are  *)
(* quarter degrees (360 deg = 1440).  A value the code computes by a real  *)
(* division (the interpolated sunrise) is kept exact as a fraction         *)
(* [num, den] with den > 0.                                                *)
(*                                                                         *)
(* Each solver is one call frame (a record holding its arguments and       *)
(* locals, and pc, its position) and one action per loop iteration.  The   *)
(* session clock counts in units of the time grid.                         *)
(***************************************************************************)
EXTENDS Integers, Sequences, FiniteSets, TLC

VARIABLES sun,   \* frame of approximate_sunrise_utc_for_local_date
          lst,   \* frame of find_time_for_lst
          taz,   \* frame of solve_time_from_altaz
          app,   \* frame of main() (one script run)
          sky,   \* what holds of the sky the solvers observe (not program state)
          stars, \* frame of compute_stars_positions_for_time
          session_state  \* st.session_state, kept from one script run to the next

vars == <<sun, lst, taz, app, sky, stars, session_state>>

Abs(x) == IF x < 0 THEN -x ELSE x

\* A frame no call is using.
Idle == [pc |-> "idle"]

-----------------------------------------------------------------------------
(***************************************************************************)
(* Bounds of the model.                                                    *)
(***************************************************************************)
\* local_date ranges over days 0..MaxDate.
MaxDate == 1
\* The sunrise solver is explored for the step sizes that give at most
\* MaxSamples samples.
MaxSamples == 5
\* find_time_for_lst is explored for the targets 0, TargetStride,
\* 2 * TargetStride, ... below 24 h (sidereal minutes) and for the approximate
\* instants ApproxStride * k, k in 0..MaxApprox.
TargetStride == 7
MaxApprox == 1
\* A session is followed for MaxSessionTicks advances of its clock.
MaxSessionTicks == 1210
\* Sidereal time advances by at most LstEps sidereal minutes over one minute
\* of the time grid: a residual within LstEps of 0 is a root of the residual.
LstEps == 2

-----------------------------------------------------------------------------
(***************************************************************************)
(* approximate_sunrise_utc_for_local_date (helpers.py 21-48)               *)
(***************************************************************************)
minutes_in_day == 24 * 60

\* target = -0.833 degrees, in milli-degrees.
target == -833

\* n_steps = minutes_in_day // step_minutes + 1
n_steps(step_minutes) == (minutes_in_day \div step_minutes) + 1

\* start_utc_dt = datetime.combine(local_date, 00:00) - timedelta(hours=tz)
\* (tz_offset is the offset in minutes, tz_offset_hours * 60).
start_utc_dt(local_date, tz_offset) == local_date * minutes_in_day - tz_offset

\* times_list[i] = start_utc_dt + timedelta(minutes=step_minutes * i)
times(c, i) == start_utc_dt(c.local_date, c.tz_offset) + c.step_minutes * i

\* The test of line 43, with the mutant that also accepts a downward crossing.
IsCrossingEitherWay(a0, a1) ==
    \/ (a0 < target) /\ (a1 >= target)
    \/ (a0 >= target) /\ (a1 < target)

IsUpwardCrossing(a0, a1) == (a0 < target) /\ (a1 >= target)

\* The returned instant of line 47 as an exact fraction:
\* t0 + frac * (t1 - t0), frac = (target - a0) / (a1 - a0), or 0 if a1 = a0.
InterpolateFromNext(t0, t1, a0, a1) ==
    IF a1 # a0
    THEN [num |-> t1 * (a1 - a0) + (target - a0) * (t1 - t0), den |-> a1 - a0]
    ELSE [num |-> t0, den |-> 1]

Interpolate(t0, t1, a0, a1) ==
    IF a1 # a0
    THEN [num |-> t0 * (a1 - a0) + (target - a0) * (t1 - t0), den |-> a1 - a0]
    ELSE [num |-> t0, den |-> 1]

\* The frame at entry: the arguments, the sampled altitudes (what
\* get_sun(times).transform_to(aa).alt.degree returned) and the loop index.
SunEntry(local_date, tz_offset, step_minutes, alt_vals) ==
    [pc |-> "scan", local_date |-> local_date, tz_offset |-> tz_offset,
     step_minutes |-> step_minutes, alt_vals |-> alt_vals,
     i |-> 0, found |-> FALSE, result |-> [num |-> 0, den |-> 1],
     probed |-> FALSE, alt_at_result |-> 0]

\* One iteration of "for i in range(len(alt_vals) - 1)" (alt_vals is 0-based).
SunScanStep(c) ==
    LET a0 == c.alt_vals[c.i]
        a1 == c.alt_vals[c.i + 1]
    IN  IF IsUpwardCrossing(a0, a1)
        THEN [c EXCEPT !.pc = "done", !.found = TRUE,
                       !.result = Interpolate(times(c, c.i), times(c, c.i + 1), a0, a1)]
        ELSE [c EXCEPT !.i = c.i + 1]

\* Mutant of the fallback: local midnight taken as if it were UTC.
SunFallbackNoOffset(c) ==
    [c EXCEPT !.pc = "done", !.found = FALSE,
              !.result = [num |-> c.local_date * minutes_in_day, den |-> 1]]

\* The loop is exhausted: return Time(start_utc_dt).
SunFallbackStep(c) ==
    [c EXCEPT !.pc = "done", !.found = FALSE,
              !.result = [num |-> start_utc_dt(c.local_date, c.tz_offset), den |-> 1]]

SunLen(c) == n_steps(c.step_minutes)

SunScan ==
    /\ sun.pc = "scan"
    /\ sun.i < SunLen(sun) - 1
    /\ sun' = SunScanStep(sun)
    /\ UNCHANGED <<lst, taz, app, sky, stars, session_state>>

SunFallback ==
    /\ sun.pc = "scan"
    /\ sun.i >= SunLen(sun) - 1
    /\ sun' = SunFallbackStep(sun)
    /\ UNCHANGED <<lst, taz, app, sky, stars, session_state>>

\* The Sun's true altitude at the returned instant, for an altitude that is
\* monotone between the two bracketing samples: any value between them.
AltProbes == {-2000, -1500, -1000, -833, -500, 0, 200, 1500}

SunProbe ==
    /\ sun.pc = "done"
    /\ sun.found
    /\ ~sun.probed
    /\ \E v \in AltProbes :
          /\ sun.alt_vals[sun.i] <= v
          /\ v <= sun.alt_vals[sun.i + 1]
          /\ sun' = [sun EXCEPT !.probed = TRUE, !.alt_at_result = v]
    /\ UNCHANGED <<lst, taz, app, sky, stars, session_state>>

\* Inputs of the stand-alone exploration of the sunrise solver.
AltVals == {-1500, -1000, -833, 200}
TzOffsets == {-300, 0, 330}
StepCandidates == {240, 288, 300, 360, 420, 480, 720, 1000, 1440}
StepChoices == {s \in StepCandidates : n_steps(s) <= MaxSamples}

SunInit ==
    \E d \in 0..MaxDate, tz \in TzOffsets, s \in StepChoices :
        \E alts \in [0..(n_steps(s) - 1) -> AltVals] :
            sun = SunEntry(d, tz, s, alts)

InitSunrise ==
    /\ SunInit
    /\ lst = Idle /\ taz = Idle /\ app = Idle /\ sky = Idle
    /\ stars = Idle /\ session_state = Idle

NextSunrise == SunScan \/ SunFallback \/ SunProbe

SpecSunrise == InitSunrise /\ [][NextSunrise]_vars


-----------------------------------------------------------------------------
(***************************************************************************)
(* Properties of the sunrise solver, stated from the samples alone.        *)
(***************************************************************************)
\* The indices at which the samples cross the threshold upward / downward.
UpwardIdx(c) ==
    {k \in 0..(SunLen(c) - 2) : c.alt_vals[k] < target /\ c.alt_vals[k + 1] >= target}
DownwardIdx(c) ==
    {k \in 0..(SunLen(c) - 2) : c.alt_vals[k] >= target /\ c.alt_vals[k + 1] < target}
FirstUpward(c) == CHOOSE k \in UpwardIdx(c) : \A j \in UpwardIdx(c) : k <= j
\* Local 00:00 of the given date as a UTC instant.
LocalMidnightUtc(c) == c.local_date * 1440 - c.tz_offset

\* C3: the solver selects the smallest index i with alt[i] < -0.833 and
\* alt[i+1] >= -0.833 (the first upward crossing, whatever comes later and
\* whatever downward crossings there are) and returns
\* times[i] + frac * (times[i+1] - times[i]), frac = (-0.833 - alt[i]) / (alt[i+1] - alt[i]).
C3_FirstUpwardCrossingInterpolated ==
    (sun.pc = "done" /\ UpwardIdx(sun) # {}) =>
        LET k  == FirstUpward(sun)
            a0 == sun.alt_vals[k]
            a1 == sun.alt_vals[k + 1]
            t0 == LocalMidnightUtc(sun) + sun.step_minutes * k
            t1 == LocalMidnightUtc(sun) + sun.step_minutes * (k + 1)
            r  == sun.result
        IN  /\ sun.found
            /\ sun.i = k
            /\ r.den > 0
            \* r - t0 = (target - a0) / (a1 - a0) * (t1 - t0)
            /\ (r.num - t0 * r.den) * (a1 - a0) = (-833 - a0) * (t1 - t0) * r.den

\* A run that returned the first of two upward crossings, after a downward one.
C3_Witness ==
    /\ sun.pc = "done"
    /\ sun.found
    /\ Cardinality(UpwardIdx(sun)) >= 2
    /\ \E k \in DownwardIdx(sun) : k < sun.i
    /\ sun.result.num > times(sun, sun.i) * sun.result.den

\* C4: with no index i such that alt[i] < -0.833 and alt[i+1] >= -0.833 the
\* solver returns exactly local midnight of the date converted to UTC
\* (local 00:00 minus the timezone offset).
C4_NoCrossingReturnsLocalMidnightUtc ==
    (sun.pc = "done" /\ UpwardIdx(sun) = {}) =>
        /\ ~sun.found
        /\ sun.result.den = 1
        /\ sun.result.num + sun.tz_offset = sun.local_date * 1440

\* A run over a day in which the Sun only sets, in a zone off UTC.
C4_Witness ==
    /\ sun.pc = "done"
    /\ UpwardIdx(sun) = {}
    /\ DownwardIdx(sun) # {}
    /\ sun.tz_offset # 0
    /\ sun.local_date > 0

\* C6 (as claimed): for every step_minutes the samples start at local 00:00
\* and reach local 24:00, the end of the local civil day.
C6_SamplesCoverWholeDay ==
    (sun.pc # "idle") =>
        /\ times(sun, 0) = LocalMidnightUtc(sun)
        /\ times(sun, SunLen(sun) - 1) = LocalMidnightUtc(sun) + 1440

\* C7: when a crossing is found at index i the interpolation fraction lies in
\* (0,1], so the returned instant lies in (times[i], times[i+1]] and inside
\* the scanned local day; and for an altitude monotone between the two
\* bracketing samples, the altitude at the returned instant differs from
\* -0.833 by at most the altitude change over that step.
C7_FractionInUnitInterval ==
    (sun.pc = "done" /\ sun.found) =>
        LET a0 == sun.alt_vals[sun.i]
            a1 == sun.alt_vals[sun.i + 1]
            t0 == times(sun, sun.i)
            t1 == times(sun, sun.i + 1)
            r  == sun.result
        IN  /\ r.den > 0
            /\ r.num > t0 * r.den
            /\ r.num <= t1 * r.den
            /\ r.num >= LocalMidnightUtc(sun) * r.den
            /\ r.num <= (LocalMidnightUtc(sun) + 1440) * r.den
            /\ sun.probed => Abs(sun.alt_at_result - (-833)) <= a1 - a0

\* A crossing strictly inside a step, with the true altitude off the threshold.
C7_Witness ==
    /\ sun.pc = "done"
    /\ sun.found
    /\ sun.probed
    /\ sun.alt_at_result # -833
    /\ sun.result.num < times(sun, sun.i + 1) * sun.result.den
    /\ sun.i > 0


-----------------------------------------------------------------------------
(***************************************************************************)
(* local_sidereal_time_hours and find_time_for_lst (helpers.py 17-19,      *)
(* 50-81)                                                                  *)
(***************************************************************************)
\* u.hour, in minutes.
hour == 60

\* Sidereal time gains one day a year on solar time: 366 sidereal days in
\* 365 solar days; Gst0 is the Greenwich sidereal time at instant 0, in
\* sidereal minutes; a degree of longitude east is 4 sidereal minutes.
SiderealNum == 366
SiderealDen == 365
Gst0 == 400
MinutesPerDegree == 4

\* t.sidereal_time(kind="apparent", longitude=lon_deg).to(u.hourangle).value,
\* in sidereal minutes, in 0..1439.
local_sidereal_time_hours(t, lon_deg) ==
    (Gst0 + ((t * SiderealNum) \div SiderealDen) + MinutesPerDegree * lon_deg) % (24 * hour)

\* f(t) = (lst_val - target_lst_hours + 12) % 24 - 12, in [-12 h, 12 h).
f(t, target_lst_hours, lon_deg) ==
    ((local_sidereal_time_hours(t, lon_deg) - target_lst_hours + 12 * hour) % (24 * hour))
        - 12 * hour

\* range(8), range(60), and 1e-7 hours: below one unit of the grid, so that
\* abs(fm) < 1e-7 is fm = 0.
max_widen == 8
max_bisect == 60
tolerance == 1

\* Mutant of the midpoint: the sum not halved.
MidpointNotHalved(left, right) == left + right

\* Time((left.jd + right.jd) / 2.0)
Midpoint(left, right) == (left + right) \div 2

\* Lines 56-59.
LstEntry(target_lst_hours, approx_time_utc, lon_deg) ==
    [pc |-> "widen", target_lst_hours |-> target_lst_hours,
     approx_time_utc |-> approx_time_utc, lon_deg |-> lon_deg,
     left |-> approx_time_utc - 12 * hour,
     right |-> approx_time_utc + 12 * hour,
     fl |-> f(approx_time_utc - 12 * hour, target_lst_hours, lon_deg),
     fr |-> f(approx_time_utc + 12 * hour, target_lst_hours, lon_deg),
     widened |-> 0, iters |-> 0, bracketed |-> FALSE, result |-> approx_time_utc]

\* Mutant of the widening: 12 hours a side instead of 6.
LstWidenStepTwelve(c) ==
    [c EXCEPT !.left = c.left - 12 * hour, !.right = c.right + 12 * hour,
              !.fl = f(c.left - 12 * hour, c.target_lst_hours, c.lon_deg),
              !.fr = f(c.right + 12 * hour, c.target_lst_hours, c.lon_deg),
              !.widened = c.widened + 1]

\* Lines 63-66: one widening.
LstWidenStep(c) ==
    [c EXCEPT !.left = c.left - 6 * hour, !.right = c.right + 6 * hour,
              !.fl = f(c.left - 6 * hour, c.target_lst_hours, c.lon_deg),
              !.fr = f(c.right + 6 * hour, c.target_lst_hours, c.lon_deg),
              !.widened = c.widened + 1]

\* Mutant of the bisection step: the right end moves without its residual.
LstBisectStepStaleResidual(c) ==
    LET mid == Midpoint(c.left, c.right)
        fm  == f(mid, c.target_lst_hours, c.lon_deg)
    IN  IF Abs(fm) < tolerance
        THEN [c EXCEPT !.pc = "done", !.result = mid, !.iters = c.iters + 1]
        ELSE IF c.fl * fm <= 0
             THEN [c EXCEPT !.right = mid, !.iters = c.iters + 1]
             ELSE [c EXCEPT !.left = mid, !.fl = fm, !.iters = c.iters + 1]

\* Lines 71-80: one bisection step.
LstBisectStep(c) ==
    LET mid == Midpoint(c.left, c.right)
        fm  == f(mid, c.target_lst_hours, c.lon_deg)
    IN  IF Abs(fm) < tolerance
        THEN [c EXCEPT !.pc = "done", !.result = mid, !.iters = c.iters + 1]
        ELSE IF c.fl * fm <= 0
             THEN [c EXCEPT !.right = mid, !.fr = fm, !.iters = c.iters + 1]
             ELSE [c EXCEPT !.left = mid, !.fl = fm, !.iters = c.iters + 1]

\* for _ in range(8): the residuals have the same strict sign, widen.
LstWiden ==
    /\ lst.pc = "widen"
    /\ lst.widened < max_widen
    /\ lst.fl * lst.fr > 0
    /\ lst' = LstWidenStep(lst)
    /\ UNCHANGED <<sun, taz, app, sky, stars, session_state>>

\* The loop is left (break, or 8 widenings done) and line 67 finds no bracket.
LstReturnApprox ==
    /\ lst.pc = "widen"
    /\ (lst.fl * lst.fr <= 0) \/ (lst.widened >= max_widen)
    /\ lst.fl * lst.fr > 0
    /\ lst' = [lst EXCEPT !.pc = "done", !.bracketed = FALSE,
                          !.result = lst.approx_time_utc]
    /\ UNCHANGED <<sun, taz, app, sky, stars, session_state>>

\* The loop is left and line 67 finds a bracket: bisection starts.
LstBracketed ==
    /\ lst.pc = "widen"
    /\ (lst.fl * lst.fr <= 0) \/ (lst.widened >= max_widen)
    /\ ~(lst.fl * lst.fr > 0)
    /\ lst' = [lst EXCEPT !.pc = "bisect", !.bracketed = TRUE]
    /\ UNCHANGED <<sun, taz, app, sky, stars, session_state>>

\* for _ in range(60)
LstBisect ==
    /\ lst.pc = "bisect"
    /\ lst.iters < max_bisect
    /\ lst' = LstBisectStep(lst)
    /\ UNCHANGED <<sun, taz, app, sky, stars, session_state>>

\* Line 81: the loop ran 60 times without meeting the tolerance.
LstReturnMid ==
    /\ lst.pc = "bisect"
    /\ lst.iters >= max_bisect
    /\ lst' = [lst EXCEPT !.pc = "done", !.result = Midpoint(lst.left, lst.right)]
    /\ UNCHANGED <<sun, taz, app, sky, stars, session_state>>

\* Inputs of the stand-alone exploration of find_time_for_lst.
ApproxStride == 997
TargetLsts == {x \in 0..(24 * hour - 1) : x % TargetStride = 0}
ApproxTimes == {ApproxStride * k : k \in 0..MaxApprox}
Longitudes == {-75, 88, 200}

LstInit ==
    \E x \in TargetLsts, t \in ApproxTimes, lon \in Longitudes :
        lst = LstEntry(x, t, lon)

InitLst ==
    /\ LstInit
    /\ sun = Idle /\ taz = Idle /\ app = Idle /\ sky = Idle
    /\ stars = Idle /\ session_state = Idle

NextLst == LstWiden \/ LstReturnApprox \/ LstBracketed \/ LstBisect \/ LstReturnMid

SpecLst == InitLst /\ [][NextLst]_vars


-----------------------------------------------------------------------------
(***************************************************************************)
(* Properties of find_time_for_lst.                                        *)
(***************************************************************************)
\* The residual at the returned instant.
LstResidualAtResult == f(lst.result, lst.target_lst_hours, lst.lon_deg)
\* The ends of the window after k widenings.
WindowLeft(k)  == lst.approx_time_utc - (12 + 6 * k) * 60
WindowRight(k) == lst.approx_time_utc + (12 + 6 * k) * 60
SameStrictSign(x, y) == (x > 0 /\ y > 0) \/ (x < 0 /\ y < 0)
\* The residuals at the two ends of the window after k widenings agree in sign.
Unbracketed(k) ==
    SameStrictSign(f(WindowLeft(k), lst.target_lst_hours, lst.lon_deg),
                   f(WindowRight(k), lst.target_lst_hours, lst.lon_deg))

\* C1 (as claimed): for every target, longitude and approximate instant the
\* returned instant has local sidereal time equal to the target within the
\* tolerance: the wrapped residual there is about 0 (and not about +/-12 h).
C1_ResidualAtResultIsZero ==
    (lst.pc = "done") => Abs(LstResidualAtResult) <= LstEps

\* C2 (as claimed): the returned instant is never earlier than the
\* approximate instant passed in.
C2_ResultNotBeforeApprox ==
    (lst.pc = "done") => lst.result >= lst.approx_time_utc

\* C2 (amended): the returned instant lies in the final search window, at
\* most 12 + 6 w hours from the approximate instant on either side, w <= 8
\* being the number of widenings.
C2_ResultWithinFinalWindow ==
    (lst.pc = "done") =>
        /\ lst.widened <= 8
        /\ lst.result >= WindowLeft(lst.widened)
        /\ lst.result <= WindowRight(lst.widened)

\* A bisection that ended on a root of the residual before the approximate
\* instant, in a window that was widened.
C2_Witness ==
    /\ lst.pc = "done"
    /\ lst.bracketed
    /\ lst.widened > 0
    /\ LstResidualAtResult = 0
    /\ lst.result < lst.approx_time_utc

BisectionIterates ==
    /\ lst.pc = "bisect"
    /\ lst'.pc = "bisect"
    /\ lst'.iters = lst.iters + 1

\* The new interval lies in the old one, the stored residuals are the
\* residuals at its ends, and they still bracket.
BracketKept ==
    /\ lst.left <= lst'.left
    /\ lst'.left <= lst'.right
    /\ lst'.right <= lst.right
    /\ lst'.fl = f(lst'.left, lst.target_lst_hours, lst.lon_deg)
    /\ lst'.fr = f(lst'.right, lst.target_lst_hours, lst.lon_deg)
    /\ lst'.fl * lst'.fr <= 0

\* The bracket when bisection starts (line 67 passed).
BracketAtStart ==
    (lst.pc = "bisect") =>
        /\ lst.fl = f(lst.left, lst.target_lst_hours, lst.lon_deg)
        /\ lst.fr = f(lst.right, lst.target_lst_hours, lst.lon_deg)
        /\ lst.fl * lst.fr <= 0

\* A return out of the bisection: mid of the current interval, early (the
\* iteration counted) only with a residual under the tolerance, otherwise
\* after the 60th iteration.
BisectionReturns ==
    (lst.pc = "bisect" /\ lst'.pc = "done") =>
        /\ lst'.result = Midpoint(lst.left, lst.right)
        /\ lst'.left = lst.left
        /\ lst'.right = lst.right
        /\ (lst'.iters = lst.iters + 1) =>
               Abs(f(lst'.result, lst.target_lst_hours, lst.lon_deg)) < tolerance
        /\ (lst'.iters = lst.iters) => lst.iters = max_bisect

-----------------------------------------------------------------------------
(***************************************************************************)
(* solve_time_from_altaz (helpers.py 83-118)                               *)
(***************************************************************************)
\* u.deg, in quarter degrees.
deg == 4

\* The apparent track of the star (what sc.transform_to(aa) returns at
\* instant t): altitude and azimuth move at constant rates, in quarter
\* degrees a minute, through (alt_ref, az_ref) at instant t_ref; the azimuth
\* is reported in [0, 360).
star_alt(k, t) == k.alt_ref + k.alt_rate * (t - k.t_ref)
star_az(k, t) == (k.az_ref + k.az_rate * (t - k.t_ref)) % (360 * deg)

\* Mutant of the azimuth difference: reduced to [0, 360), not wrapped.
az_difference_unwrapped(az, target_az_deg) == (az - target_az_deg) % (360 * deg)

\* dz = (az - target_az_deg + 180) % 360 - 180
az_difference(az, target_az_deg) ==
    ((az - target_az_deg + 180 * deg) % (360 * deg)) - 180 * deg

\* error_at_jd: hypot(da, dz), kept as its square da^2 + dz^2 (the code only
\* compares two errors, and the square root is increasing).
error_at_jd(c, jd_val) ==
    LET da == star_alt(c.track, jd_val) - c.target_alt_deg
        dz == az_difference(star_az(c.track, jd_val), c.target_az_deg)
    IN  da * da + dz * dz

\* range(80)
max_ternary == 80

m1_of(a, b) == a + ((b - a) \div 3)
m2_of(a, b) == a + ((2 * (b - a)) \div 3)

\* Lines 106-107, with the locals of the loop not yet set.
TazEntry(target_alt_deg, target_az_deg, track, approx_time_utc) ==
    [pc |-> "search", target_alt_deg |-> target_alt_deg,
     target_az_deg |-> target_az_deg, track |-> track,
     approx_time_utc |-> approx_time_utc,
     a |-> approx_time_utc - 12 * hour, b |-> approx_time_utc + 12 * hour,
     iters |-> 0, m1 |-> 0, m2 |-> 0, f1 |-> 0, f2 |-> 0,
     az1 |-> 0, az2 |-> 0, dz1 |-> 0, dz2 |-> 0,
     best |-> 0, err |-> 0]

\* Mutant of the step: on a tie the upper third is dropped.
TazStepTieDropsUpper(c) ==
    LET m1 == m1_of(c.a, c.b)
        m2 == m2_of(c.a, c.b)
        f1 == error_at_jd(c, m1)
        f2 == error_at_jd(c, m2)
        d  == [c EXCEPT !.iters = c.iters + 1, !.m1 = m1, !.m2 = m2,
                        !.f1 = f1, !.f2 = f2,
                        !.az1 = star_az(c.track, m1), !.az2 = star_az(c.track, m2),
                        !.dz1 = az_difference(star_az(c.track, m1), c.target_az_deg),
                        !.dz2 = az_difference(star_az(c.track, m2), c.target_az_deg)]
    IN  IF f1 <= f2 THEN [d EXCEPT !.b = m2] ELSE [d EXCEPT !.a = m1]

\* Mutant of the step: the third with the larger error is kept.
TazStepKeepsLarger(c) ==
    LET m1 == m1_of(c.a, c.b)
        m2 == m2_of(c.a, c.b)
        f1 == error_at_jd(c, m1)
        f2 == error_at_jd(c, m2)
        d  == [c EXCEPT !.iters = c.iters + 1, !.m1 = m1, !.m2 = m2,
                        !.f1 = f1, !.f2 = f2,
                        !.az1 = star_az(c.track, m1), !.az2 = star_az(c.track, m2),
                        !.dz1 = az_difference(star_az(c.track, m1), c.target_az_deg),
                        !.dz2 = az_difference(star_az(c.track, m2), c.target_az_deg)]
    IN  IF f1 > f2 THEN [d EXCEPT !.b = m2] ELSE [d EXCEPT !.a = m1]

\* Lines 109-116: one ternary step.  az1, az2, dz1, dz2 are the az and dz of
\* the two calls of error_at_jd.
TazStep(c) ==
    LET m1 == m1_of(c.a, c.b)
        m2 == m2_of(c.a, c.b)
        f1 == error_at_jd(c, m1)
        f2 == error_at_jd(c, m2)
        d  == [c EXCEPT !.iters = c.iters + 1, !.m1 = m1, !.m2 = m2,
                        !.f1 = f1, !.f2 = f2,
                        !.az1 = star_az(c.track, m1), !.az2 = star_az(c.track, m2),
                        !.dz1 = az_difference(star_az(c.track, m1), c.target_az_deg),
                        !.dz2 = az_difference(star_az(c.track, m2), c.target_az_deg)]
    IN  IF f1 < f2 THEN [d EXCEPT !.b = m2] ELSE [d EXCEPT !.a = m1]

\* Lines 117-118: best = 0.5 * (a + b); return Time(best), error_at_jd(best).
TazReturn(c) ==
    LET best == (c.a + c.b) \div 2
    IN  [c EXCEPT !.pc = "done", !.best = best, !.err = error_at_jd(c, best)]

\* Mutant of the ternary loop: one iteration too many.
TazSearchOneMore ==
    /\ taz.pc = "search"
    /\ taz.iters <= max_ternary
    /\ taz' = TazStep(taz)
    /\ UNCHANGED <<sun, lst, app, sky, stars, session_state>>

\* for _ in range(80)
TazSearch ==
    /\ taz.pc = "search"
    /\ taz.iters < max_ternary
    /\ taz' = TazStep(taz)
    /\ UNCHANGED <<sun, lst, app, sky, stars, session_state>>

TazFinish ==
    /\ taz.pc = "search"
    /\ taz.iters >= max_ternary
    /\ taz' = TazReturn(taz)
    /\ UNCHANGED <<sun, lst, app, sky, stars, session_state>>

\* Inputs of the stand-alone exploration of solve_time_from_altaz: a track,
\* and a target that is the star's position at instant t0 displaced by
\* (off_alt, off_az); approx_time_utc is t0 minus an offset.
AltRates == {-2, 0, 1, 3}
AzRates == {-1, 0, 1}
AzRefs == {0, 100, 1400}
T0Offsets == {-700, -333, -60, 0, 45, 500, 720}
TargetOffsets == {<<0, 0>>, <<40, 0>>, <<0, 720>>}
AltRef == 120

\* The error is strictly decreasing up to t0 and strictly increasing after
\* it on every instant of the window [lo, hi], and is 0 at t0.
IsUnimodalAbout(c, t0, lo, hi) ==
    /\ error_at_jd(c, t0) = 0
    /\ \A t \in lo..(hi - 1) :
          IF t < t0 THEN error_at_jd(c, t) > error_at_jd(c, t + 1)
                    ELSE error_at_jd(c, t) < error_at_jd(c, t + 1)

TazInit ==
    \E ar \in AltRates, zr \in AzRates, z0 \in AzRefs, t \in ApproxTimes,
       o \in T0Offsets, off \in TargetOffsets :
        LET track == [alt_ref |-> AltRef, az_ref |-> z0, alt_rate |-> ar,
                      az_rate |-> zr, t_ref |-> t + o]
            c == TazEntry(star_alt(track, t + o) + off[1],
                          (star_az(track, t + o) + off[2]) % (360 * deg),
                          track, t)
        IN  /\ taz = c
            /\ sky = [t0 |-> t + o,
                      unimodal |-> IsUnimodalAbout(c, t + o, c.a, c.b)]

InitAltAz ==
    /\ TazInit
    /\ sun = Idle /\ lst = Idle /\ app = Idle
    /\ stars = Idle /\ session_state = Idle

NextAltAz == TazSearch \/ TazFinish

SpecAltAz == InitAltAz /\ [][NextAltAz]_vars


-----------------------------------------------------------------------------
TernaryIterates ==
    /\ taz.pc = "search"
    /\ taz'.pc = "search"
    /\ taz'.iters = taz.iters + 1

\* The interval lies in the initial window.
InsideInitialWindow ==
    (taz.pc # "idle") =>
        /\ taz.approx_time_utc - 12 * hour <= taz.a
        /\ taz.a <= taz.b
        /\ taz.b <= taz.approx_time_utc + 12 * hour

\* The probes are the thirds of the old interval, and the upper third is
\* dropped when error(m1) < error(m2), the lower third otherwise (on a tie
\* too).
ThirdDropped ==
    /\ taz'.m1 = m1_of(taz.a, taz.b)
    /\ taz'.m2 = m2_of(taz.a, taz.b)
    /\ taz'.f1 = error_at_jd(taz, taz'.m1)
    /\ taz'.f2 = error_at_jd(taz, taz'.m2)
    /\ (taz'.f1 < taz'.f2) => (taz'.b = taz'.m2 /\ taz'.a = taz.a)
    /\ (taz'.f1 >= taz'.f2) => (taz'.a = taz'.m1 /\ taz'.b = taz.b)

\* The return after the 80th step: the midpoint of the final interval.
TernaryReturns ==
    (taz.pc = "search" /\ taz'.pc = "done") =>
        /\ taz.iters = max_ternary
        /\ taz'.a = taz.a
        /\ taz'.b = taz.b
        /\ taz'.best = (taz.a + taz.b) \div 2

\* C21 (as claimed): at every one of the 80 iterations [a, b] stays inside
\* [approx - 12 h, approx + 12 h] and is replaced by exactly two thirds of
\* itself, the upper third dropped (b := m2) when error(m1) < error(m2) and
\* the lower third (a := m1) otherwise, ties included; the returned instant
\* is the midpoint of the final interval.
C21_IntervalExactlyTwoThirds ==
    [][/\ InsideInitialWindow
       /\ TernaryIterates =>
              /\ ThirdDropped
              /\ 3 * (taz'.b - taz'.a) = 2 * (taz.b - taz.a)
       /\ TernaryReturns]_vars

\* C21 (amended): as claimed, but the new width is two thirds of the old one
\* only up to the resolution of the time scale: the two thirds rounded down
\* or up to a representable instant, so that an interval of one or two steps
\* may stay as it is.
C21_IntervalTwoThirdsToResolution ==
    [][/\ InsideInitialWindow
       /\ TernaryIterates =>
              /\ ThirdDropped
              /\ 3 * (taz'.b - taz'.a) >= 2 * (taz.b - taz.a) - 2
              /\ 3 * (taz'.b - taz'.a) <= 2 * (taz.b - taz.a) + 2
       /\ TernaryReturns]_vars

\* A step that met a tie between two different probes and dropped the lower
\* third.
C21_Witness ==
    /\ taz.pc = "search"
    /\ taz.iters > 0
    /\ taz.m1 < taz.m2
    /\ taz.f1 = taz.f2
    /\ taz.a = taz.m1
    /\ taz.b > taz.m2


-----------------------------------------------------------------------------
(***************************************************************************)
(* The three solvers side by side: any one call of any of them.            *)
(***************************************************************************)
InitSolvers == InitSunrise \/ InitLst \/ InitAltAz

NextSolvers == NextSunrise \/ NextLst \/ NextAltAz

SpecSolvers == InitSolvers /\ [][NextSolvers]_vars

\* The iterations of the sunrise scan made so far: i samples passed over,
\* and the one that returned.
SunIterations == IF sun.pc = "done" /\ sun.found THEN sun.i + 1 ELSE sun.i

\* C14: every solver call ends after a number of iterations that is bounded
\* whatever the values computed: the sunrise scan after at most
\* 1440 div step_minutes iterations, find_time_for_lst after at most 8
\* widenings and at most 60 bisection steps, solve_time_from_altaz after
\* exactly 80 ternary steps; and a call that has not returned can take its
\* next step.
C14_IterationsBounded ==
    /\ (sun.pc # "idle") =>
           /\ SunIterations <= minutes_in_day \div sun.step_minutes
           /\ (sun.pc # "done") => ENABLED (SunScan \/ SunFallback)
    /\ (lst.pc # "idle") =>
           /\ lst.widened <= max_widen
           /\ lst.iters <= max_bisect
           /\ (lst.pc # "done") => ENABLED NextLst
    /\ (taz.pc # "idle") =>
           /\ taz.iters <= max_ternary
           /\ (taz.pc = "done") => taz.iters = max_ternary
           /\ (taz.pc # "done") => ENABLED NextAltAz

\* A call of find_time_for_lst that used both of its loops, the bisection to
\* its last iteration.
C14_Witness ==
    /\ lst.pc = "done"
    /\ lst.bracketed
    /\ lst.widened >= 1
    /\ lst.iters = max_bisect


-----------------------------------------------------------------------------
(***************************************************************************)
(* get_star_catalog (star_catalog.py 4-19) and                             *)
(* compute_stars_positions_for_time (helpers.py 159-178)                   *)
(***************************************************************************)
\* get_star_catalog(): three of the rows; ra_h in sidereal minutes, dec_deg
\* in quarter degrees, mag in hundredths.
get_star_catalog ==
    << [name |-> "Chitra (Spica)", ra_h |-> 805, dec_deg |-> -45, mag |-> 97],
       [name |-> "Lubdhaka (Sirius)", ra_h |-> 405, dec_deg |-> -67, mag |-> -146],
       [name |-> "Dhruva (Polaris)", ra_h |-> 152, dec_deg |-> 357, mag |-> 198] >>

\* np.mod(x, m): the remainder has the sign of m.
np_mod(x, m) == x % m

\* Series.clip(lo, hi)
clip(x, lo, hi) == IF x < lo THEN lo ELSE IF x > hi THEN hi ELSE x

\* Mutant of the row: a star on the horizon counts as visible.
star_row_visible_on_horizon(r, altaz) ==
    [name |-> r.name, ra_h |-> r.ra_h, dec_deg |-> r.dec_deg, mag |-> r.mag,
     alt_deg |-> altaz.alt, az_deg |-> altaz.az, visible |-> altaz.alt >= 0]

\* Lines 166-174: the row appended for catalog row r, altaz being
\* sc.transform_to(aa) (.alt.degree and .az.degree as the transform gives
\* them).
star_row(r, altaz) ==
    [name |-> r.name, ra_h |-> r.ra_h, dec_deg |-> r.dec_deg, mag |-> r.mag,
     alt_deg |-> altaz.alt, az_deg |-> altaz.az, visible |-> altaz.alt > 0]

\* Mutant of the normalisation: the azimuth column left as computed.
normalise_columns_no_mod(rows) ==
    [i \in 1..Len(rows) |->
        [rows[i] EXCEPT !.alt_deg = clip(@, -90 * deg, 90 * deg)]]

\* Lines 176-177: az_deg = np.mod(az_deg, 360), alt_deg = alt_deg.clip(-90, 90).
normalise_columns(rows) ==
    [i \in 1..Len(rows) |->
        [rows[i] EXCEPT !.az_deg = np_mod(@, 360 * deg),
                        !.alt_deg = clip(@, -90 * deg, 90 * deg)]]

\* The table returned for the transform results altaz (one per catalog row).
compute_stars_positions_for_time(altaz, base_stars_df) ==
    normalise_columns([i \in 1..Len(base_stars_df) |->
                           star_row(base_stars_df[i], altaz[i])])

\* Lines 161-162, with the loop not yet entered.
StarsEntry(altaz, base_stars_df) ==
    [pc |-> "rows", altaz |-> altaz, base_stars_df |-> base_stars_df,
     rows |-> << >>, df |-> << >>]

\* Mutant of the loop body: the new row is put in front.
StarsRowStepInFront(c) ==
    LET i == Len(c.rows) + 1
    IN  [c EXCEPT !.rows = <<star_row(c.base_stars_df[i], c.altaz[i])>> \o c.rows]

\* Lines 163-174: one pass of the loop over base_stars_df.iterrows().
StarsRowStep(c) ==
    LET i == Len(c.rows) + 1
    IN  [c EXCEPT !.rows = Append(c.rows, star_row(c.base_stars_df[i], c.altaz[i]))]

\* Lines 175-178.
StarsReturn(c) == [c EXCEPT !.pc = "done", !.df = normalise_columns(c.rows)]

StarsRow ==
    /\ stars.pc = "rows"
    /\ Len(stars.rows) < Len(stars.base_stars_df)
    /\ stars' = StarsRowStep(stars)
    /\ UNCHANGED <<sun, lst, taz, app, sky, session_state>>

StarsFinish ==
    /\ stars.pc = "rows"
    /\ Len(stars.rows) >= Len(stars.base_stars_df)
    /\ stars' = StarsReturn(stars)
    /\ UNCHANGED <<sun, lst, taz, app, sky, session_state>>

\* Inputs of the stand-alone exploration: what the transform may give for a
\* row, in range, on the ends of the ranges and outside them.
RawAlts == {-91 * deg, -90 * deg, 0, 1, 91 * deg}
RawAzs == {-1 * deg, 0, 360 * deg - 1, 360 * deg}
RawAltAz == {[alt |-> x, az |-> z] : x \in RawAlts, z \in RawAzs}

StarsInit ==
    \E altaz \in [1..Len(get_star_catalog) -> RawAltAz] :
        stars = StarsEntry(altaz, get_star_catalog)

InitStars ==
    /\ StarsInit
    /\ sun = Idle /\ lst = Idle /\ taz = Idle /\ app = Idle /\ sky = Idle
    /\ session_state = Idle

\* plots.py 8-11 and 143-146: plot_df, the rows a chart plots.
plot_df_of(stars_df, show_only_visible) ==
    IF show_only_visible THEN SelectSeq(stars_df, LAMBDA r : r.visible) ELSE stars_df

\* The rows create_3d_planetarium and create_2d_altaz_chart put markers for
\* (show_grid adds grid lines only).
create_3d_planetarium(stars_df, show_grid, show_only_visible) ==
    plot_df_of(stars_df, show_only_visible)
create_2d_altaz_chart(stars_df, show_grid, show_only_visible) ==
    plot_df_of(stars_df, show_only_visible)

ViewModes == {"3D planetarium dome", "2D alt-az chart"}

\* app.py 203-209: the caller hands the returned table to the chart of the
\* view mode.
ChartDrawn ==
    /\ stars.pc = "done"
    /\ app.pc = "idle"
    /\ \E view_mode \in ViewModes, show_grid \in BOOLEAN, show_only_visible \in BOOLEAN :
          app' = [pc |-> "charts", view_mode |-> view_mode,
                  show_only_visible |-> show_only_visible, stars_df |-> stars.df,
                  plot_df |-> IF view_mode = "3D planetarium dome"
                              THEN create_3d_planetarium(stars.df, show_grid,
                                                         show_only_visible)
                              ELSE create_2d_altaz_chart(stars.df, show_grid,
                                                         show_only_visible)]
    /\ UNCHANGED <<sun, lst, taz, sky, stars, session_state>>

NextStars == StarsRow \/ StarsFinish \/ ChartDrawn

SpecStars == InitStars /\ [][NextStars]_vars

-----------------------------------------------------------------------------
(***************************************************************************)
(* Properties of compute_stars_positions_for_time.                         *)
(***************************************************************************)
\* C11: whatever altitude and azimuth the transform gives for a row, every
\* row of the returned table has az_deg in [0, 360) and alt_deg in
\* [-90, 90] (quarter degrees: 0..1439 and -360..360).
C11_RowsInRange ==
    (stars.pc = "done") =>
        \A i \in 1..Len(stars.df) :
            /\ 0 <= stars.df[i].az_deg
            /\ stars.df[i].az_deg < 360 * deg
            /\ -90 * deg <= stars.df[i].alt_deg
            /\ stars.df[i].alt_deg <= 90 * deg

\* A returned table one of whose rows had both its azimuth and its altitude
\* out of range as the transform gave them.
C11_Witness ==
    /\ stars.pc = "done"
    /\ \E i \in 1..Len(stars.df) :
          /\ stars.altaz[i].az >= 360 * deg
          /\ stars.altaz[i].alt > 90 * deg
          /\ stars.df[i].az_deg = stars.altaz[i].az - 360 * deg
          /\ stars.df[i].alt_deg = 90 * deg

\* C15: the returned table has exactly one row per catalog entry, in catalog
\* order, whose name, ra_h, dec_deg and mag equal those of the input, and the
\* input table is as it was; the table being built never holds anything but
\* the first rows of the catalog.
C15_CatalogColumnsKept ==
    (stars.pc # "idle") =>
        /\ stars.base_stars_df = get_star_catalog
        /\ Len(stars.rows) <= Len(stars.base_stars_df)
        /\ \A i \in 1..Len(stars.rows) :
              /\ stars.rows[i].name = stars.base_stars_df[i].name
              /\ stars.rows[i].ra_h = stars.base_stars_df[i].ra_h
              /\ stars.rows[i].dec_deg = stars.base_stars_df[i].dec_deg
              /\ stars.rows[i].mag = stars.base_stars_df[i].mag
        /\ (stars.pc = "done") =>
              /\ Len(stars.df) = Len(stars.base_stars_df)
              /\ stars.df = compute_stars_positions_for_time(stars.altaz,
                                                             stars.base_stars_df)
              /\ \A i \in 1..Len(stars.df) :
                    /\ stars.df[i].name = stars.base_stars_df[i].name
                    /\ stars.df[i].ra_h = stars.base_stars_df[i].ra_h
                    /\ stars.df[i].dec_deg = stars.base_stars_df[i].dec_deg
                    /\ stars.df[i].mag = stars.base_stars_df[i].mag

\* A returned table whose rows differ in altitude and azimuth from one
\* another, and whose columns were changed by the normalisation.
C15_Witness ==
    /\ stars.pc = "done"
    /\ Len(stars.df) = Len(get_star_catalog)
    /\ stars.df[1].alt_deg # stars.df[2].alt_deg
    /\ stars.df[2].az_deg # stars.df[3].az_deg
    /\ stars.df[3].az_deg # stars.altaz[3].az

\* The rows of a table whose altitude is above the horizon, in order.
RowsAboveHorizon(df) == SelectSeq(df, LAMBDA r : r.alt_deg > 0)

\* C24: in every row of the returned table visible is true exactly when the
\* row's (clipped) alt_deg is > 0; and a chart drawn with show_only_visible
\* set plots the rows of altitude > 0 and no other (all rows when it is not
\* set).
C24_VisibleIsAboveHorizon ==
    /\ (stars.pc = "done") =>
           \A i \in 1..Len(stars.df) :
               stars.df[i].visible = (stars.df[i].alt_deg > 0)
    /\ (app.pc = "charts") =>
           /\ app.stars_df = stars.df
           /\ app.show_only_visible =>
                  /\ \A i \in 1..Len(app.plot_df) : app.plot_df[i].alt_deg > 0
                  /\ app.plot_df = RowsAboveHorizon(app.stars_df)
           /\ (~app.show_only_visible) => app.plot_df = app.stars_df

\* A chart of the visible stars only that left out a row of the table, the
\* table holding a row on the horizon and a row whose altitude was clipped.
C24_Witness ==
    /\ app.pc = "charts"
    /\ app.show_only_visible
    /\ Len(app.plot_df) = 1
    /\ \E i \in 1..Len(stars.df) :
          stars.altaz[i].alt > 90 * deg /\ stars.df[i].visible
    /\ \E i \in 1..Len(stars.df) :
          stars.altaz[i].alt = 0 /\ ~stars.df[i].visible


-----------------------------------------------------------------------------
(***************************************************************************)
(* main() of app.py: one script run, from the clock reading and the star   *)
(* table (lines 150-179) to the ancient clock (lines 181-197, 246-248) and *)
(* the two buttons (lines 281-289, 298-312).                               *)
(* A call of a solver sets the solver's frame; main goes on when the frame *)
(* is "done".                                                              *)
(***************************************************************************)
\* The step main passes to the sunrise solver, and ghati_sec = 24 * 60.
main_step_minutes == 10
ghati_sec == 24 * 60

\* Line 155, time_diff >= 1: the smallest advance of the clock the run acts
\* on, one unit of the time grid; and line 161, the counter value at which
\* the star table is computed anew.
tick == 1
refresh_period == 1200

\* The Sun's altitude at instant t (get_sun(times).transform_to(aa)): highest,
\* at local solar noon, and lowest, p.trough, twelve hours from it, linear in
\* between; noon is at 12:00 UTC minus 4 minutes a degree east.  The noon
\* altitude is p.peak on day 0 and p.gain more with every day (the season).
sun_altitude(p, lon, t) ==
    LET noon == 12 * hour - MinutesPerDegree * lon
        d    == ((t - noon + 12 * hour) % (24 * hour)) - 12 * hour
        peak == p.peak + p.gain * (t \div minutes_in_day)
    IN  peak - (((peak - p.trough) * Abs(d)) \div (12 * hour))

\* alt_vals of a call of the sunrise solver under that Sun.
sun_samples(p, lon, local_date, tz_offset, step_minutes) ==
    [i \in 0..(n_steps(step_minutes) - 1) |->
        sun_altitude(p, lon, start_utc_dt(local_date, tz_offset) + step_minutes * i)]

\* The difference a - b of an instant and a fraction, in seconds.
seconds_between(a, b) == [num |-> 60 * (a * b.den - b.num), den |-> b.den]

\* Mutant of the conversion: the offset added.
time_from_local_localdt_added(local_dt, tz_offset_hours) == local_dt + tz_offset_hours

\* time_from_local_localdt: utc_dt = local_dt - timedelta(hours=tz_offset_hours)
time_from_local_localdt(local_dt, tz_offset_hours) == local_dt - tz_offset_hours

\* x.utc.datetime + timedelta(hours=tz_offset), of an instant and of a fraction.
utc_to_local(utc_dt, tz_offset) == utc_dt + tz_offset
utc_to_local_frac(x, tz_offset) == [num |-> x.num + tz_offset * x.den, den |-> x.den]

\* to_earthlocation(lat, lon, height_m)
to_earthlocation(lat, lon, height_m) == [lat |-> lat, lon |-> lon, height_m |-> height_m]

\* The apparent track of catalog row r seen from a location: a star at the
\* pole stands still at the altitude of the latitude, due north; any other
\* star is on the meridian, due south at altitude 90 - lat + dec, at the
\* instant its right ascension is the local sidereal time, and moves a
\* quarter degree a minute.
star_track(r, location) ==
    IF r.dec_deg > 88 * deg
    THEN [alt_ref |-> location.lat * deg, az_ref |-> 0,
          alt_rate |-> 0, az_rate |-> 0, t_ref |-> 0]
    ELSE [alt_ref |-> (90 - location.lat) * deg + r.dec_deg, az_ref |-> 180 * deg,
          alt_rate |-> -1, az_rate |-> 1,
          t_ref |-> (r.ra_h - Gst0 - MinutesPerDegree * location.lon) % (24 * hour)]

\* sc.transform_to(aa) for every catalog row at instant t.
stars_altaz(location, t, base_stars_df) ==
    [i \in 1..Len(base_stars_df) |->
        [alt |-> star_alt(star_track(base_stars_df[i], location), t),
         az  |-> star_az(star_track(base_stars_df[i], location), t)]]

\* Lines 29-36 in a new session, the clock reading now.
SessionEntry(now) ==
    [last_update |-> now, last_plot_update |-> now, current_time |-> now,
     plot_refresh_counter |-> 0, has_stars_df_cached |-> FALSE,
     stars_df_cached |-> << >>]

\* Mutant of the test of the counter: due only past the period.
refresh_due_past_period(plot_refresh_counter) == plot_refresh_counter > refresh_period

\* Line 161: plot_update_needed.
refresh_due(plot_refresh_counter) == plot_refresh_counter >= refresh_period

\* Lines 150-179: the clock and the refresh counter, current_dt, utc_time and
\* the star table, taken from the session or computed and kept there.
\* sky.snapshot_of records what the kept table was computed for.
AppRefresh ==
    /\ app.pc = "start"
    /\ LET time_diff == app.now - session_state.last_update
           s1 == IF time_diff >= tick
                 THEN [session_state EXCEPT !.current_time = app.now,
                                            !.last_update = app.now,
                                            !.plot_refresh_counter = @ + 1]
                 ELSE session_state
           plot_update_needed == refresh_due(s1.plot_refresh_counter)
           s2 == IF plot_update_needed
                 THEN [s1 EXCEPT !.last_plot_update = app.now,
                                 !.plot_refresh_counter = 0]
                 ELSE s1
           current_dt == app.picked_date * minutes_in_day
                            + (s2.current_time % minutes_in_day)
           utc_time == time_from_local_localdt(current_dt, app.tz_offset)
           location == to_earthlocation(app.lat, app.lon, app.height_m)
           reuse == ~plot_update_needed /\ s2.has_stars_df_cached
           stars_df == IF reuse
                       THEN s2.stars_df_cached
                       ELSE compute_stars_positions_for_time(
                                stars_altaz(location, utc_time, get_star_catalog),
                                get_star_catalog)
       IN  /\ app' = [app EXCEPT !.pc = "refreshed", !.current_dt = current_dt,
                                 !.utc_time = utc_time, !.location = location,
                                 !.plot_update_needed = plot_update_needed,
                                 !.reused = reuse, !.stars_df = stars_df]
           /\ session_state' = [s2 EXCEPT !.has_stars_df_cached = TRUE,
                                          !.stars_df_cached = stars_df]
           /\ sky' = IF reuse
                     THEN sky
                     ELSE [sky EXCEPT !.snapshot_of =
                              [location |-> location, picked_date |-> app.picked_date,
                               utc_time |-> utc_time, clock |-> s2.current_time]]
    /\ UNCHANGED <<sun, lst, taz, stars>>

\* Lines 182-184: the call of the sunrise solver for current_dt.date().
AppRun ==
    /\ app.pc = "refreshed"
    /\ app' = [app EXCEPT !.pc = "sunrise"]
    /\ sun' = SunEntry(app.current_dt \div minutes_in_day, app.tz_offset,
                       main_step_minutes,
                       sun_samples(sky.sun, app.lon, app.current_dt \div minutes_in_day,
                                   app.tz_offset, main_step_minutes))
    /\ UNCHANGED <<lst, taz, sky, stars, session_state>>

\* Lines 185-187: the sunrise is not after utc_time.
AppSunriseNotAfter ==
    /\ app.pc = "sunrise"
    /\ sun.pc = "done"
    /\ ~(seconds_between(app.utc_time, sun.result).num < 0)
    /\ app' = [app EXCEPT !.pc = "ancient", !.sunrise_time_utc = sun.result,
                          !.seconds_since_sunrise = seconds_between(app.utc_time, sun.result)]
    /\ UNCHANGED <<sun, lst, taz, sky, stars, session_state>>

\* Mutant of the date of the second call: two days before.
previous_date_two_days(current_dt) == (current_dt - 2 * minutes_in_day) \div minutes_in_day

\* Mutant of the date of the second call: the same day again.
previous_date_same_day(current_dt) == current_dt \div minutes_in_day

\* (current_dt - timedelta(days=1)).date()
previous_date(current_dt) == (current_dt - minutes_in_day) \div minutes_in_day

\* Lines 185-190: seconds_since_sunrise < 0, the solver is called for the
\* day before.
AppSunriseAfter ==
    /\ app.pc = "sunrise"
    /\ sun.pc = "done"
    /\ seconds_between(app.utc_time, sun.result).num < 0
    /\ app' = [app EXCEPT !.pc = "prev", !.sunrise_time_utc = sun.result,
                          !.seconds_since_sunrise = seconds_between(app.utc_time, sun.result)]
    /\ sun' = SunEntry(previous_date(app.current_dt), app.tz_offset, main_step_minutes,
                       sun_samples(sky.sun, app.lon, previous_date(app.current_dt),
                                   app.tz_offset, main_step_minutes))
    /\ UNCHANGED <<lst, taz, sky, stars, session_state>>

\* Lines 191-192.
AppPrevSunrise ==
    /\ app.pc = "prev"
    /\ sun.pc = "done"
    /\ app' = [app EXCEPT !.pc = "ancient", !.sunrise_time_utc = sun.result,
                          !.seconds_since_sunrise = seconds_between(app.utc_time, sun.result)]
    /\ UNCHANGED <<sun, lst, taz, sky, stars, session_state>>

\* Mutant of the units: a yama of 8 ghati.
ancient_units_yama_of_eight(s) ==
    [ghati |-> [num |-> s.num, den |-> s.den * ghati_sec],
     muhurta |-> [num |-> s.num, den |-> s.den * ghati_sec * 2],
     yama |-> [num |-> s.num, den |-> s.den * ghati_sec * 8]]

\* Lines 194-197: ghati = s / ghati_sec, muhurta = ghati / 2.0,
\* yama = ghati / 7.5, as fractions.
ancient_units(s) ==
    [ghati |-> [num |-> s.num, den |-> s.den * ghati_sec],
     muhurta |-> [num |-> s.num, den |-> s.den * ghati_sec * 2],
     yama |-> [num |-> s.num * 2, den |-> s.den * ghati_sec * 15]]

\* Lines 194-197 and 246-248: the units are derived and written out with
\* the sunrise.
AppAncientClock ==
    /\ app.pc = "ancient"
    /\ LET units == ancient_units(app.seconds_since_sunrise)
       IN  app' = [app EXCEPT !.pc = "shown",
                      !.ghati = units.ghati,
                      !.muhurta = units.muhurta,
                      !.yama = units.yama,
                      !.sunrise_local_dt = utc_to_local_frac(app.sunrise_time_utc,
                                                             app.tz_offset),
                      !.ancient_shown = TRUE]
    /\ UNCHANGED <<sun, lst, taz, sky, stars, session_state>>

\* Lines 273 and 281-283: the button is pressed, find_time_for_lst is called
\* with the selected star's right ascension and utc_time.
AppTransitPressed ==
    /\ app.pc = "shown"
    /\ lst' = LstEntry(app.stars_df[app.sel].ra_h, app.utc_time, app.lon)
    /\ app' = [app EXCEPT !.pc = "transit"]
    /\ UNCHANGED <<sun, taz, sky, stars, session_state>>

\* Lines 284-289: the returned instant is written out as the transit.
AppTransitShown ==
    /\ app.pc = "transit"
    /\ lst.pc = "done"
    /\ app' = [app EXCEPT !.pc = "reported", !.found_time = lst.result,
                          !.found_local = utc_to_local(lst.result, app.tz_offset),
                          !.transit_shown = TRUE]
    /\ UNCHANGED <<sun, lst, taz, sky, stars, session_state>>

\* Lines 273 and 298-303: the other button is pressed, solve_time_from_altaz
\* is called with the altitude and azimuth of the selected row of stars_df;
\* the star is then looked at from location.
AppSolvePressed ==
    /\ app.pc = "shown"
    /\ LET star_row_sel == app.stars_df[app.sel]
       IN  taz' = TazEntry(star_row_sel.alt_deg, star_row_sel.az_deg,
                           star_track(star_row_sel, app.location), app.utc_time)
    /\ app' = [app EXCEPT !.pc = "solve"]
    /\ UNCHANGED <<sun, lst, sky, stars, session_state>>

\* Mutant of the report: the residual written out is the error at the
\* run's own instant.
AppSolveShownErrorNow ==
    /\ app.pc = "solve"
    /\ taz.pc = "done"
    /\ app' = [app EXCEPT !.pc = "solved", !.found_time2 = taz.best,
                          !.local_found = utc_to_local(taz.best, app.tz_offset),
                          !.err_deg = error_at_jd(taz, app.utc_time),
                          !.solve_shown = TRUE]
    /\ UNCHANGED <<sun, lst, taz, sky, stars, session_state>>

\* Lines 304-312: the solved instant and the residual are written out.
AppSolveShown ==
    /\ app.pc = "solve"
    /\ taz.pc = "done"
    /\ app' = [app EXCEPT !.pc = "solved", !.found_time2 = taz.best,
                          !.local_found = utc_to_local(taz.best, app.tz_offset),
                          !.err_deg = taz.err, !.solve_shown = TRUE]
    /\ UNCHANGED <<sun, lst, taz, sky, stars, session_state>>

\* Inputs of a script run: the sidebar's values, the clock reading (minutes
\* of the wall clock, local midnight of its day 0 being 0) and the Sun of the
\* place and season.
ClockTimes == {0, 20, 24, 6 * 60, 12 * 60, 20 * 60}
MainTzOffsets == {0, 330}
MainLongitudes == {-75, 88}
MainLatitude == 13
MainHeight == 900
SunOfTheDay ==
    { [peak |-> 40000, trough |-> -40000, gain |-> 0],    \* rises and sets
      [peak |-> -5000, trough |-> -30000, gain |-> 0],    \* polar night
      [peak |-> 30000, trough |-> 5000, gain |-> 0],      \* midnight Sun
      [peak |-> -2000, trough |-> -30000, gain |-> 1500] } \* polar night ending

AppEntry(lat, lon, height_m, tz_offset, picked_date, now, sel) ==
    [pc |-> "start", lat |-> lat, lon |-> lon, height_m |-> height_m,
     tz_offset |-> tz_offset, picked_date |-> picked_date, now |-> now, sel |-> sel,
     current_dt |-> 0, utc_time |-> 0,
     location |-> to_earthlocation(lat, lon, height_m),
     plot_update_needed |-> FALSE, reused |-> FALSE, stars_df |-> << >>,
     sunrise_time_utc |-> [num |-> 0, den |-> 1],
     seconds_since_sunrise |-> [num |-> 0, den |-> 1],
     ghati |-> [num |-> 0, den |-> 1], muhurta |-> [num |-> 0, den |-> 1],
     yama |-> [num |-> 0, den |-> 1],
     sunrise_local_dt |-> [num |-> 0, den |-> 1], ancient_shown |-> FALSE,
     found_time |-> 0, found_local |-> 0, transit_shown |-> FALSE,
     found_time2 |-> 0, local_found |-> 0, err_deg |-> 0, solve_shown |-> FALSE]

\* A session that has run before: the table it keeps was computed seven
\* ticks ago, when the sidebar held another place.
EarlierLatitude == 52
EarlierTicks == 7
SessionOfEarlierRuns(lon, tz_offset, picked_date, now) ==
    LET then == now - tick
        location == to_earthlocation(EarlierLatitude, lon, 0)
        utc_time == time_from_local_localdt(
                        picked_date * minutes_in_day + ((then - EarlierTicks) % minutes_in_day),
                        tz_offset)
    IN  [session |-> [last_update |-> then, last_plot_update |-> then - EarlierTicks,
                      current_time |-> then,
                      plot_refresh_counter |-> EarlierTicks,
                      has_stars_df_cached |-> TRUE,
                      stars_df_cached |-> compute_stars_positions_for_time(
                          stars_altaz(location, utc_time, get_star_catalog),
                          get_star_catalog)],
         snapshot_of |-> [location |-> location, picked_date |-> picked_date,
                          utc_time |-> utc_time, clock |-> then - EarlierTicks]]

InitMain ==
    /\ \E lon \in MainLongitudes, tz \in MainTzOffsets, d \in 1..(MaxDate + 1),
          now \in ClockTimes, sel \in 1..Len(get_star_catalog), p \in SunOfTheDay :
          /\ app = AppEntry(MainLatitude, lon, MainHeight, tz, d, now, sel)
          /\ \/ /\ session_state = SessionEntry(now)
                /\ sky = [sun |-> p, snapshot_of |-> Idle]
             \/ /\ now >= EarlierTicks + tick
                /\ session_state = SessionOfEarlierRuns(lon, tz, d, now).session
                /\ sky = [sun |-> p,
                          snapshot_of |-> SessionOfEarlierRuns(lon, tz, d, now).snapshot_of]
    /\ sun = Idle /\ lst = Idle /\ taz = Idle /\ stars = Idle

NextMain ==
    \/ AppRefresh \/ AppRun \/ AppSunriseNotAfter \/ AppSunriseAfter \/ AppPrevSunrise
    \/ AppAncientClock \/ AppTransitPressed \/ AppTransitShown
    \/ AppSolvePressed \/ AppSolveShown
    \/ SunScan \/ SunFallback
    \/ LstWiden \/ LstReturnApprox \/ LstBracketed \/ LstBisect \/ LstReturnMid
    \/ TazSearch \/ TazFinish

SpecMain == InitMain /\ [][NextMain]_vars

-----------------------------------------------------------------------------
(***************************************************************************)
(* Properties of main().                                                   *)
(***************************************************************************)
\* C5 (as claimed): a degraded solver result is never treated as success:
\* when the sunrise solver returned its no-crossing fallback the caller does
\* not derive and show ghati, muhurta and yama from it, and when
\* find_time_for_lst returned the approximate instant unchanged the caller
\* does not show it as a transit time.
C5_DegradedResultNotUsed ==
    /\ (app.pc \in {"ancient", "shown", "transit", "reported"} /\ ~sun.found)
          => ~app.ancient_shown
    /\ (app.pc = "reported" /\ ~lst.bracketed) => ~app.transit_shown

\* The positions of a run at which the ancient clock has been computed, and
\* those at which it has been written out.
AfterSunrise == {"ancient", "shown", "transit", "reported", "solve", "solved"}
AfterAncient == {"shown", "transit", "reported", "solve", "solved"}

\* A fraction in lowest terms (den > 0), to compare fractions by value.
RECURSIVE Gcd(_, _)
Gcd(x, y) == IF y = 0 THEN x ELSE Gcd(y, x % y)
Reduced(x) ==
    LET g == Gcd(Abs(x.num), x.den)
    IN  [num |-> x.num \div g, den |-> x.den \div g]

\* C12: with s the elapsed seconds since sunrise, ghati = s / 1440,
\* muhurta = ghati / 2 and yama = ghati / 7.5 (as equalities of fractions);
\* hence s = 0 gives 0 for all three, s = 1440 gives 1, 1/2 and 2/15, and
\* s = 86400 gives 60, 30 and 8.
C12_UnitsFromSeconds ==
    (app.pc \in AfterAncient) =>
        LET s == app.seconds_since_sunrise
            g == app.ghati
            m == app.muhurta
            y == app.yama
        IN  /\ s.den > 0 /\ g.den > 0 /\ m.den > 0 /\ y.den > 0
            /\ Reduced(g) = Reduced([num |-> s.num, den |-> s.den * 1440])
            /\ Reduced(m) = Reduced([num |-> g.num, den |-> g.den * 2])
            /\ Reduced(y) = Reduced([num |-> g.num * 2, den |-> g.den * 15])
            /\ (s.num = 0) => (g.num = 0 /\ m.num = 0 /\ y.num = 0)
            /\ (s.num = 1440 * s.den) =>
                   /\ Reduced(g) = [num |-> 1, den |-> 1]
                   /\ Reduced(m) = [num |-> 1, den |-> 2]
                   /\ Reduced(y) = [num |-> 2, den |-> 15]
            /\ (s.num = 86400 * s.den) =>
                   /\ Reduced(g) = [num |-> 60, den |-> 1]
                   /\ Reduced(m) = [num |-> 30, den |-> 1]
                   /\ Reduced(y) = [num |-> 8, den |-> 1]

\* The ancient clock written out 1440 seconds after the sunrise: one ghati,
\* half a muhurta.
C12_Witness ==
    /\ app.pc = "shown"
    /\ app.seconds_since_sunrise.num = 1440 * app.seconds_since_sunrise.den
    /\ app.ghati.num = app.ghati.den
    /\ 2 * app.muhurta.num = app.muhurta.den
    /\ Reduced(app.yama) = [num |-> 2, den |-> 15]

\* C13: the elapsed seconds the ancient clock is derived from are never
\* negative: whatever the clock reading within the picked date and whatever
\* the sunrise solver returns (its midnight fallback too), when the current
\* instant is before the computed sunrise the solver is called again for the
\* civil day before, and the seconds finally used are >= 0 and are measured
\* from the sunrise instant that is written out.
C13_ElapsedNeverNegative ==
    /\ (app.pc = "prev") =>
           /\ app.seconds_since_sunrise.num < 0
           /\ sun.local_date = app.picked_date - 1
    /\ (app.pc \in AfterSunrise) =>
           /\ app.seconds_since_sunrise.den > 0
           /\ app.seconds_since_sunrise.num >= 0
           /\ app.seconds_since_sunrise
                  = seconds_between(app.utc_time, app.sunrise_time_utc)
           /\ app.sunrise_time_utc = sun.result
           /\ sun.local_date \in {app.picked_date, app.picked_date - 1}
    /\ (app.pc \in AfterAncient) =>
           app.sunrise_local_dt = utc_to_local_frac(app.sunrise_time_utc, app.tz_offset)

\* The ancient clock of a run whose instant was before the day's sunrise:
\* counted from a sunrise found on the day before.
C13_Witness ==
    /\ app.pc = "shown"
    /\ sun.local_date = app.picked_date - 1
    /\ sun.found
    /\ app.seconds_since_sunrise.num > 0

\* C22: the elapsed seconds the ancient clock is derived from lie in
\* [0, 172800) (under 48 h, so that ghati < 120) whatever the clock reading
\* within the picked date, and in [0, 86400) when the first sunrise computed
\* was not after the current instant (no second call of the solver).
C22_ElapsedUnderTwoDays ==
    /\ (app.pc \in AfterSunrise) =>
           /\ app.seconds_since_sunrise.num >= 0
           /\ app.seconds_since_sunrise.num < 172800 * app.seconds_since_sunrise.den
           /\ (sun.local_date = app.picked_date) =>
                  app.seconds_since_sunrise.num < 86400 * app.seconds_since_sunrise.den
    /\ (app.pc \in AfterAncient) =>
           /\ app.ghati.num >= 0
           /\ app.ghati.num < 120 * app.ghati.den

\* The ancient clock of a run before the first sunrise after the polar
\* night: counted from the local midnight of the day before, more than 24 h
\* and more than 60 ghati ago.
C22_Witness ==
    /\ app.pc = "shown"
    /\ sun.local_date = app.picked_date - 1
    /\ ~sun.found
    /\ app.seconds_since_sunrise.num > 86400 * app.seconds_since_sunrise.den
    /\ app.ghati.num > 60 * app.ghati.den

\* C16: the instant main works with is the local date and time L less the
\* zone offset z, and adding z back gives L again: as the program does for
\* the instants it writes out, the sunrise (local midnight when the solver
\* fell back to it) and the solved instants (the run's own local time when
\* find_time_for_lst returned its argument).
C16_LocalUtcRoundTrip ==
    (app.pc \notin {"idle", "start"}) =>
        /\ app.utc_time = app.current_dt - app.tz_offset
        /\ utc_to_local(app.utc_time, app.tz_offset) = app.current_dt
        /\ (app.pc \in AfterAncient /\ ~sun.found) =>
               app.sunrise_local_dt = [num |-> sun.local_date * minutes_in_day, den |-> 1]
        /\ (app.pc = "reported") =>
               /\ app.found_local - app.tz_offset = app.found_time
               /\ (~lst.bracketed) => app.found_local = app.current_dt
        /\ (app.pc = "solved") => app.local_found - app.tz_offset = app.found_time2

\* A transit written out by a run east of Greenwich for which the solver
\* returned its argument: the local time written is the run's own.
C16_Witness ==
    /\ app.pc = "reported"
    /\ ~lst.bracketed
    /\ app.tz_offset > 0
    /\ app.utc_time # app.current_dt
    /\ app.found_local = app.current_dt

\* C19: solve_time_from_altaz returns for every target, reachable by the
\* star or not, an instant and a residual that is the error at exactly that
\* instant and is >= 0; main writes out that instant and that residual.
C19_ResidualReturnedAndShown ==
    /\ (taz.pc = "done") =>
           /\ taz.iters = max_ternary
           /\ taz.err = error_at_jd(taz, taz.best)
           /\ taz.err >= 0
    /\ (app.pc = "solved") =>
           /\ taz.pc = "done"
           /\ app.solve_shown
           /\ app.found_time2 = taz.best
           /\ app.local_found = utc_to_local(taz.best, app.tz_offset)
           /\ app.err_deg = taz.err

\* A solved time written out for a target the star never reaches: the table
\* was kept from an earlier place, its altitude is not the one the star
\* stands at here, and the residual written out is not 0.
C19_Witness ==
    /\ app.pc = "solved"
    /\ app.reused
    /\ taz.track.alt_rate = 0
    /\ taz.target_alt_deg # taz.track.alt_ref
    /\ \A t \in (taz.approx_time_utc - 12 * hour)..(taz.approx_time_utc + 12 * hour) :
           error_at_jd(taz, t) > 0
    /\ app.err_deg > 0

-----------------------------------------------------------------------------
(***************************************************************************)
(* A session: the script is run again and again (a widget changed, the     *)
(* page refreshed), st.session_state being kept from run to run.  Lines    *)
(* 181-330 of a run read the session state and do not write it; what a     *)
(* session does to it is lines 29-36 and 150-179 of each run.              *)
(***************************************************************************)
\* The clock reading of the first run, and the places the sidebar may hold.
SessionStart == 6 * 60
SessionLatitudes == {MainLatitude, EarlierLatitude}
SessionLongitude == 88
SessionTzOffset == 330

\* Streamlit runs the script again, an earlier run being over or cut short:
\* main() is entered with the values the sidebar holds now and the clock is
\* read again, the same unit of the grid or the next.
AppRerun ==
    /\ app.pc \in {"refreshed", "shown", "reported", "solved"}
    /\ \E lat \in SessionLatitudes, d \in 1..(MaxDate + 1), dt \in {0, tick} :
          /\ app.now + dt <= SessionStart + MaxSessionTicks
          /\ app' = AppEntry(lat, app.lon, app.height_m, app.tz_offset, d,
                             app.now + dt, app.sel)
    /\ UNCHANGED <<sun, lst, taz, sky, stars, session_state>>

InitSession ==
    /\ \E lat \in SessionLatitudes, d \in 1..(MaxDate + 1) :
          app = AppEntry(lat, SessionLongitude, MainHeight, SessionTzOffset, d,
                         SessionStart, 1)
    /\ session_state = SessionEntry(SessionStart)
    /\ sky = [sun |-> [peak |-> 40000, trough |-> -40000, gain |-> 0],
              snapshot_of |-> Idle]
    /\ sun = Idle /\ lst = Idle /\ taz = Idle /\ stars = Idle

NextSession == AppRefresh \/ AppRerun

SpecSession == InitSession /\ [][NextSession]_vars

\* C17 (as claimed): the star table kept in the session is keyed by instant
\* and location: whenever a run takes stars_df from stars_df_cached, the kept
\* table was computed for the observer location (lat, lon, height) and the
\* picked date the sidebar holds now, and for an instant no more than one
\* refresh period (1200 clock ticks) old.
C17_CacheKeyedByInstantAndLocation ==
    (app.pc = "refreshed" /\ app.reused) =>
        /\ sky.snapshot_of.location = app.location
        /\ sky.snapshot_of.picked_date = app.picked_date
        /\ session_state.current_time - sky.snapshot_of.clock
               <= refresh_period * tick

\* A run's lines 150-179.
RunRefreshes == app.pc = "start" /\ app'.pc = "refreshed"

\* At least one tick has passed since last_update when the run reads the
\* clock.
Ticked == app.now - session_state.last_update >= tick

=============================================================================
